---- MODULE Spec2Model ----
(***************************************************************************)
(* A model of the blog REST backend (FastAPI + SQLAlchemy): the four       *)
(* tables users / posts / comments / tags, the post_tags join table, the   *)
(* bearer tokens in circulation, and one action per route handler.  Each   *)
(* action models the whole handler: the authentication dependency, the     *)
(* permission checks, the CRUD calls, the commit (with the storage-level   *)
(* unique constraints) and the try/except blocks that map exceptions to    *)
(* HTTP status codes.                                                      *)
(*                                                                         *)
(* Rows are kept in sequences; a row's id is its index (serial primary     *)
(* key).  created_at is set at insert, so ORDER BY created_at DESC is the  *)
(* order of descending id.  deleted_at is <<>> for NULL and <<t>> for the  *)
(* clock value t at which soft_delete() ran.                               *)
(***************************************************************************)
EXTENDS Integers, Sequences, FiniteSets, TLC

VARIABLES users, posts, comments, tags, post_tags, tokens, now, budget, last, sessions, storage

vars == <<users, posts, comments, tags, post_tags, tokens, now, budget, last, sessions, storage>>
db == <<users, posts, comments, tags, post_tags>>

----------------------------------------------------------------------------
(* Bounds of the exploration *)

\* state-changing requests explored from the database at start
MaxSteps == 2
\* state-changing requests explored by the specification of the tag handlers
MaxTagSteps == 3
\* state-changing requests explored by the specification of the account handlers
MaxAuthSteps == 3
\* largest skip / limit query parameters tried
MaxSkip == 2
MaxLimit == 2

----------------------------------------------------------------------------
(* Values *)

None == <<>>
Usernames == {"ann", "cat"}
Emails == {"ann@x", "cat@x"}
Passwords == {"pw", "bad"}
TagNames == {"go", "Go", "py"}
Contents == {"c0", "c1"}

\* str.lower() on the tag names in use
Lower(s) == IF s = "Go" THEN "go" ELSE s

\* passlib hash / verify: a hash verifies exactly the password it was made from
get_password_hash(password) == <<"bcrypt", password>>
verify_password(plain_password, hashed_password) == hashed_password = <<"bcrypt", plain_password>>

NoToken == [sub |-> "", uid |-> 0]
NoPage == [total |-> 0, page |-> 0, size |-> 0, total_pages |-> 0, items |-> <<>>]
\* the request being answered and its response; pre is the state of the row
\* the request names ("missing" / "deleted" / "active") as the handler found it
NoRequest ==
    [op |-> "", tok |-> NoToken, id |-> 0, id2 |-> 0, arg |-> "", arg2 |-> "", flag |-> FALSE,
     skip |-> 0, limit |-> 0, status |-> 0, pre |-> "", page |-> NoPage]

Request(op, tok, id, arg) == [NoRequest EXCEPT !.op = op, !.tok = tok, !.id = id, !.arg = arg]
ListRequest(op, tok, skip, limit) == [NoRequest EXCEPT !.op = op, !.tok = tok, !.skip = skip, !.limit = limit]

\* the rate limiter's memory: the route and path the requests of a run go to,
\* the time in ticks, and per client address the window counter (count,
\* expiry), the requests let through in the window (acc), in the previous and
\* in the current tick (prev, cur)
Addresses == {"a1", "a2"}
NoHits == [count |-> 0, expiry |-> 0, acc |-> 0, prev |-> 0, cur |-> 0]
NoStorage == [route |-> "", id |-> 0, time |-> 0, hits |-> [a \in Addresses |-> NoHits]]

\* a request served in its own database session (get_db), one statement at a
\* time: pc is the handler's position, passed tells that the duplicate checks
\* found nothing, overlap that another session committed a write to the same
\* row between this session's read and its commit
Sessions == {1, 2}
NoSession ==
    [op |-> "", pc |-> "idle", tok |-> NoToken, id |-> 0, name |-> "", status |-> 0,
     passed |-> FALSE, overlap |-> FALSE, skip |-> 0, limit |-> 0, page |-> NoPage]

----------------------------------------------------------------------------
(* Sequences and SQL helpers *)

Max(S) == CHOOSE x \in S : \A y \in S : y <= x

\* ids of S in descending order (ORDER BY created_at DESC)
RECURSIVE DescIds(_)
DescIds(S) == IF S = {} THEN <<>> ELSE <<Max(S)>> \o DescIds(S \ {Max(S)})

\* ids of S ordered by deleted_at DESC, rows being the table
RECURSIVE ByDeletedAtDesc(_, _)
ByDeletedAtDesc(rows, S) ==
    IF S = {} THEN <<>>
    ELSE LET m == CHOOSE x \in S : \A y \in S :
                    \/ rows[y].deleted_at[1] < rows[x].deleted_at[1]
                    \/ rows[y].deleted_at[1] = rows[x].deleted_at[1] /\ y <= x
         IN <<m>> \o ByDeletedAtDesc(rows, S \ {m})

\* .offset(skip).limit(limit) applied to an ordered result
OffsetLimit(seq, skip, limit) ==
    IF skip >= Len(seq) THEN <<>>
    ELSE SubSeq(seq, skip + 1, IF skip + limit <= Len(seq) THEN skip + limit ELSE Len(seq))

\* a faulty restore that clears the timestamp but leaves the flag set
restore_keeps_flag(row) == [row EXCEPT !.deleted_at = None]

\* a faulty soft_delete that sets the flag and leaves the timestamp
soft_delete_flag_only(row) == [row EXCEPT !.is_deleted = TRUE]

\* SoftDeleteMixin.soft_delete / restore
soft_delete(row) == [row EXCEPT !.is_deleted = TRUE, !.deleted_at = <<now>>]
restore(row) == [row EXCEPT !.is_deleted = FALSE, !.deleted_at = None]

RowState(rows, id) ==
    IF id \notin DOMAIN rows THEN "missing"
    ELSE IF rows[id].is_deleted THEN "deleted" ELSE "active"

----------------------------------------------------------------------------
(* Authentication dependencies *)

deps_get_user_by_username(username) ==
    LET found == {i \in DOMAIN users : users[i].username = username}
    IN IF Cardinality(found) = 1 THEN CHOOSE i \in found : TRUE ELSE 0

\* [status, uid]: 200 and the user's id, or the 401 of credentials_exception
get_current_user(tok) ==
    IF tok = NoToken \/ tok.sub = "" THEN [status |-> 401, uid |-> 0]
    ELSE LET db_user == deps_get_user_by_username(tok.sub)
         IN IF db_user = 0 \/ users[db_user].is_deleted
            THEN [status |-> 401, uid |-> 0]
            ELSE [status |-> 200, uid |-> db_user]

get_current_active_user(tok) ==
    LET cur == get_current_user(tok)
    IN IF cur.status # 200 THEN cur
       ELSE IF ~users[cur.uid].is_active THEN [status |-> 400, uid |-> 0]
       ELSE cur

require_admin(tok) ==
    LET cur == get_current_active_user(tok)
    IN IF cur.status # 200 THEN cur
       ELSE IF ~users[cur.uid].is_admin THEN [status |-> 403, uid |-> 0]
       ELSE cur

\* a faulty page count: total // limit + 1
Paginated_off_by_one(items, total, skip, limit) ==
    [total |-> total,
     page |-> IF limit > 0 THEN (skip \div limit) + 1 ELSE 1,
     size |-> Len(items),
     total_pages |-> IF limit > 0 THEN (total \div limit) + 1 ELSE 1,
     items |-> items]

\* the pagination arithmetic every list handler repeats
Paginated(items, total, skip, limit) ==
    [total |-> total,
     page |-> IF limit > 0 THEN (skip \div limit) + 1 ELSE 1,
     size |-> Len(items),
     total_pages |-> IF limit > 0 THEN (total + limit - 1) \div limit ELSE 1,
     items |-> items]

----------------------------------------------------------------------------
(* Tags: app/crud/tag.py *)

\* a tags table without the unique index
TagNameTaken_unindexed(name, except_id) == FALSE

\* the unique index on tags.name: exact match, over every stored row
TagNameTaken(name, except_id) ==
    \E i \in DOMAIN tags : i # except_id /\ tags[i].name = name

\* [exc, val]: scalar_one_or_none() raises MultipleResultsFound on two rows,
\* which the except clause turns into a 500
get_tag_by_name(name) ==
    LET found == {i \in DOMAIN tags : Lower(tags[i].name) = Lower(name) /\ ~tags[i].is_deleted}
    IN IF Cardinality(found) > 1 THEN [exc |-> 500, val |-> 0]
       ELSE IF found = {} THEN [exc |-> 0, val |-> 0]
       ELSE [exc |-> 0, val |-> CHOOSE i \in found : TRUE]

get_tag(tag_id) ==
    IF tag_id \in DOMAIN tags /\ ~tags[tag_id].is_deleted THEN tag_id ELSE 0

\* [exc, val, tags]
crud_tag_create_tag(name) ==
    LET existing == get_tag_by_name(name)
    IN IF existing.exc # 0 THEN [exc |-> existing.exc, val |-> 0, tags |-> tags]
       ELSE IF existing.val # 0 THEN [exc |-> 400, val |-> 0, tags |-> tags]
       ELSE IF TagNameTaken(name, 0) THEN [exc |-> 400, val |-> 0, tags |-> tags]
       ELSE [exc |-> 0, val |-> Len(tags) + 1,
             tags |-> Append(tags, [name |-> name, is_deleted |-> FALSE, deleted_at |-> None])]

crud_tag_update_tag(tag_id, name) ==
    LET db_tag == get_tag(tag_id)
        existing == get_tag_by_name(name)
    IN IF db_tag = 0 THEN [exc |-> 0, val |-> 0, tags |-> tags]
       ELSE IF name # "" /\ name # tags[db_tag].name /\ existing.exc # 0
            THEN [exc |-> existing.exc, val |-> 0, tags |-> tags]
       ELSE IF name # "" /\ name # tags[db_tag].name /\ existing.val # 0
            THEN [exc |-> 400, val |-> 0, tags |-> tags]
       ELSE IF TagNameTaken(name, db_tag) THEN [exc |-> 400, val |-> 0, tags |-> tags]
       ELSE [exc |-> 0, val |-> db_tag, tags |-> [tags EXCEPT ![db_tag].name = name]]

crud_tag_delete_tag(tag_id) ==
    LET db_tag == get_tag(tag_id)
    IN IF db_tag = 0 THEN [exc |-> 0, val |-> FALSE, tags |-> tags]
       ELSE [exc |-> 0, val |-> TRUE, tags |-> [tags EXCEPT ![db_tag] = soft_delete(@)]]

crud_tag_restore_tag(tag_id) ==
    IF tag_id \notin DOMAIN tags THEN [exc |-> 0, val |-> FALSE, tags |-> tags]
    ELSE IF ~tags[tag_id].is_deleted THEN [exc |-> 0, val |-> TRUE, tags |-> tags]
    ELSE [exc |-> 0, val |-> TRUE, tags |-> [tags EXCEPT ![tag_id] = restore(@)]]

get_tags_paginated(skip, limit) ==
    LET active == {i \in DOMAIN tags : ~tags[i].is_deleted}
    IN [items |-> OffsetLimit(DescIds(active), skip, limit), total |-> Cardinality(active)]

get_deleted_tags_paginated(skip, limit) ==
    LET deleted == {i \in DOMAIN tags : tags[i].is_deleted}
    IN [items |-> OffsetLimit(ByDeletedAtDesc(tags, deleted), skip, limit), total |-> Cardinality(deleted)]

----------------------------------------------------------------------------
(* Tags: app/api/routes/tags.py.  Every handler yields [status, tags, page]. *)

TagReply(status, newtags) == [status |-> status, tags |-> newtags, page |-> NoPage]

tags_create_tag(tok, name) ==
    LET cur == get_current_active_user(tok)
        db_tag == get_tag_by_name(name)
        made == crud_tag_create_tag(name)
    IN IF cur.status # 200 THEN TagReply(cur.status, tags)
       ELSE IF ~users[cur.uid].is_admin THEN TagReply(403, tags)
       ELSE IF db_tag.exc # 0 THEN TagReply(db_tag.exc, tags)
       ELSE IF db_tag.val # 0 THEN TagReply(400, tags)
       ELSE IF made.exc # 0 THEN TagReply(made.exc, tags)
       ELSE TagReply(201, made.tags)

tags_read_tags(skip, limit) ==
    LET got == get_tags_paginated(skip, limit)
    IN [status |-> 200, tags |-> tags, page |-> Paginated(got.items, got.total, skip, limit)]

\* TagWithPosts: the embedded posts are those of the relationship Tag.posts
tags_read_tag(tag_id) ==
    LET embedded == DescIds({p \in DOMAIN posts : <<p, tag_id>> \in post_tags})
    IN IF get_tag(tag_id) = 0 THEN TagReply(404, tags)
       ELSE [status |-> 200, tags |-> tags, page |-> [NoPage EXCEPT !.items = embedded]]

tags_update_tag(tok, tag_id, name) ==
    LET cur == get_current_active_user(tok)
        upd == crud_tag_update_tag(tag_id, name)
    IN IF cur.status # 200 THEN TagReply(cur.status, tags)
       ELSE IF ~users[cur.uid].is_admin THEN TagReply(403, tags)
       ELSE IF upd.exc # 0 THEN TagReply(upd.exc, tags)
       ELSE IF upd.val = 0 THEN TagReply(404, tags)
       ELSE TagReply(200, upd.tags)

\* the handler's only except clause is "except Exception", which also catches
\* the HTTPException(403) and HTTPException(404) raised inside the try block
tags_delete_tag(tok, tag_id) ==
    LET cur == get_current_active_user(tok)
        del == crud_tag_delete_tag(tag_id)
    IN IF cur.status # 200 THEN TagReply(cur.status, tags)
       ELSE IF ~users[cur.uid].is_admin THEN TagReply(500, tags)
       ELSE IF ~del.val THEN TagReply(500, tags)
       ELSE TagReply(204, del.tags)

tags_restore_tag(tok, tag_id) ==
    LET cur == get_current_active_user(tok)
        res == crud_tag_restore_tag(tag_id)
    IN IF cur.status # 200 THEN TagReply(cur.status, tags)
       ELSE IF ~users[cur.uid].is_admin THEN TagReply(403, tags)
       ELSE IF ~res.val THEN TagReply(404, tags)
       ELSE TagReply(200, res.tags)

tags_read_deleted_tags(tok, skip, limit) ==
    LET cur == get_current_active_user(tok)
        got == get_deleted_tags_paginated(skip, limit)
    IN IF cur.status # 200 THEN TagReply(cur.status, tags)
       ELSE IF ~users[cur.uid].is_admin THEN TagReply(403, tags)
       ELSE [status |-> 200, tags |-> tags, page |-> Paginated(got.items, got.total, skip, limit)]

----------------------------------------------------------------------------
(* Users: app/crud/user.py *)

\* pydantic's parsing of a JSON boolean
ParseBool(value) == value = "true"

\* faulty unique indexes that cover the active rows only
UserUniqueViolated_active_only(username, email, except_id) ==
    \E i \in DOMAIN users :
        i # except_id /\ ~users[i].is_deleted /\ (users[i].username = username \/ users[i].email = email)

\* a users table whose email column has no unique index
UserUniqueViolated_username_only(username, email, except_id) ==
    \E i \in DOMAIN users : i # except_id /\ users[i].username = username

\* the unique indexes on users.username and users.email, over every stored row
UserUniqueViolated(username, email, except_id) ==
    \E i \in DOMAIN users : i # except_id /\ (users[i].username = username \/ users[i].email = email)

\* by id, soft-deleted users included
get_user(user_id) == IF user_id \in DOMAIN users THEN user_id ELSE 0

\* a faulty lookup that forgets the filter on is_deleted
get_user_with_posts_unfiltered(user_id) == IF user_id \in DOMAIN users THEN user_id ELSE 0

get_user_with_posts(user_id) ==
    IF user_id \in DOMAIN users /\ ~users[user_id].is_deleted THEN user_id ELSE 0

\* [exc, val]; no filter on is_deleted
get_user_by_username(username) ==
    LET found == {i \in DOMAIN users : users[i].username = username}
    IN IF Cardinality(found) > 1 THEN [exc |-> 500, val |-> 0]
       ELSE IF found = {} THEN [exc |-> 0, val |-> 0]
       ELSE [exc |-> 0, val |-> CHOOSE i \in found : TRUE]

\* [exc, val]; active users only
get_user_by_email(email) ==
    LET found == {i \in DOMAIN users : users[i].email = email /\ ~users[i].is_deleted}
    IN IF Cardinality(found) > 1 THEN [exc |-> 500, val |-> 0]
       ELSE IF found = {} THEN [exc |-> 0, val |-> 0]
       ELSE [exc |-> 0, val |-> CHOOSE i \in found : TRUE]

get_users_paginated(skip, limit) ==
    LET active == {i \in DOMAIN users : ~users[i].is_deleted}
    IN [items |-> OffsetLimit(DescIds(active), skip, limit), total |-> Cardinality(active)]

get_deleted_users(skip, limit) ==
    OffsetLimit(ByDeletedAtDesc(users, {i \in DOMAIN users : users[i].is_deleted}), skip, limit)

\* [exc, val]
authenticate_user(username, password) ==
    LET user == get_user_by_username(username)
    IN IF user.exc # 0 THEN [exc |-> 500, val |-> 0]
       ELSE IF user.val = 0 THEN [exc |-> 0, val |-> 0]
       ELSE IF ~verify_password(password, users[user.val].hashed_password) THEN [exc |-> 0, val |-> 0]
       ELSE IF users[user.val].is_deleted THEN [exc |-> 0, val |-> 0]
       ELSE user

\* user is a UserCreate: [username, email, password, is_active, is_admin]; [exc, val, users]
crud_user_create_user(user) ==
    LET by_email == get_user_by_email(user.email)
        by_username == get_user_by_username(user.username)
    IN IF by_email.exc # 0 THEN [exc |-> by_email.exc, val |-> 0, users |-> users]
       ELSE IF by_email.val # 0 THEN [exc |-> 400, val |-> 0, users |-> users]
       ELSE IF by_username.exc # 0 THEN [exc |-> by_username.exc, val |-> 0, users |-> users]
       ELSE IF by_username.val # 0 THEN [exc |-> 400, val |-> 0, users |-> users]
       ELSE IF UserUniqueViolated(user.username, user.email, 0) THEN [exc |-> 400, val |-> 0, users |-> users]
       ELSE [exc |-> 0, val |-> Len(users) + 1,
             users |-> Append(users, [username |-> user.username, email |-> user.email,
                                      hashed_password |-> get_password_hash(user.password),
                                      is_active |-> user.is_active, is_admin |-> user.is_admin,
                                      is_deleted |-> FALSE, deleted_at |-> None])]

\* a UserUpdate with the one field set (exclude_unset); [exc, val, users]
crud_user_update_user(user_id, field, value) ==
    LET db_user == get_user(user_id)
        by_email == get_user_by_email(value)
        by_username == get_user_by_username(value)
        updated == [users EXCEPT ![user_id] =
                       IF field \in {"is_admin", "is_active"} THEN [@ EXCEPT ![field] = ParseBool(value)]
                       ELSE [@ EXCEPT ![field] = value]]
    IN IF db_user = 0 THEN [exc |-> 0, val |-> 0, users |-> users]
       ELSE IF users[db_user].is_deleted THEN [exc |-> 400, val |-> 0, users |-> users]
       ELSE IF field = "email" /\ by_email.exc # 0 THEN [exc |-> by_email.exc, val |-> 0, users |-> users]
       ELSE IF field = "email" /\ by_email.val # 0 /\ by_email.val # user_id THEN [exc |-> 400, val |-> 0, users |-> users]
       ELSE IF field = "username" /\ by_username.exc # 0 THEN [exc |-> by_username.exc, val |-> 0, users |-> users]
       ELSE IF field = "username" /\ by_username.val # 0 /\ by_username.val # user_id THEN [exc |-> 400, val |-> 0, users |-> users]
       ELSE IF UserUniqueViolated(updated[user_id].username, updated[user_id].email, user_id)
            THEN [exc |-> 400, val |-> 0, users |-> users]
       ELSE [exc |-> 0, val |-> db_user, users |-> updated]

\* a delete_user without the "already deleted" return
crud_user_delete_user_restamps(user_id) ==
    LET db_user == get_user(user_id)
    IN IF db_user = 0 THEN [exc |-> 0, val |-> FALSE, users |-> users]
       ELSE [exc |-> 0, val |-> TRUE, users |-> [users EXCEPT ![db_user] = soft_delete(@)]]

crud_user_delete_user(user_id) ==
    LET db_user == get_user(user_id)
    IN IF db_user = 0 THEN [exc |-> 0, val |-> FALSE, users |-> users]
       ELSE IF users[db_user].is_deleted THEN [exc |-> 0, val |-> TRUE, users |-> users]
       ELSE [exc |-> 0, val |-> TRUE, users |-> [users EXCEPT ![db_user] = soft_delete(@)]]

crud_user_restore_user(user_id) ==
    LET db_user == get_user(user_id)
    IN IF db_user = 0 THEN [exc |-> 0, val |-> FALSE, users |-> users]
       ELSE IF ~users[db_user].is_deleted THEN [exc |-> 0, val |-> TRUE, users |-> users]
       ELSE [exc |-> 0, val |-> TRUE, users |-> [users EXCEPT ![db_user] = restore(@)]]

----------------------------------------------------------------------------
(* Users: app/api/routes/users.py and app/api/routes/auth.py.              *)
(* Every handler yields [status, users, tokens, page].                     *)

UserReply(status, newusers) == [status |-> status, users |-> newusers, tokens |-> tokens, page |-> NoPage]

users_read_users(skip, limit) ==
    LET got == get_users_paginated(skip, limit)
    IN [status |-> 200, users |-> users, tokens |-> tokens, page |-> Paginated(got.items, got.total, skip, limit)]

users_read_user_me(tok) ==
    UserReply(get_current_active_user(tok).status, users)

\* the embedded posts are those of the relationship User.posts
users_read_user(user_id) ==
    LET db_user == get_user_with_posts(user_id)
        embedded == DescIds({p \in DOMAIN posts : posts[p].author_id = user_id})
    IN IF db_user = 0 THEN UserReply(404, users)
       ELSE [status |-> 200, users |-> users, tokens |-> tokens, page |-> [NoPage EXCEPT !.items = embedded]]

users_create_user(user) ==
    LET by_username == get_user_by_username(user.username)
        by_email == get_user_by_email(user.email)
        made == crud_user_create_user(user)
    IN IF by_username.exc # 0 THEN UserReply(by_username.exc, users)
       ELSE IF by_username.val # 0 THEN UserReply(400, users)
       ELSE IF by_email.exc # 0 THEN UserReply(by_email.exc, users)
       ELSE IF by_email.val # 0 THEN UserReply(400, users)
       ELSE IF made.exc # 0 THEN UserReply(made.exc, users)
       ELSE UserReply(201, made.users)

\* UserAuth carries no flags: the handler builds the UserCreate with
\* is_active=True, is_admin=False
auth_register_user(user) ==
    users_create_user([user EXCEPT !.is_active = TRUE, !.is_admin = FALSE])

auth_login_user(username, password) ==
    LET db_user == authenticate_user(username, password)
    IN IF db_user.exc # 0 THEN UserReply(db_user.exc, users)
       ELSE IF db_user.val = 0 THEN UserReply(401, users)
       ELSE IF ~users[db_user.val].is_active THEN UserReply(403, users)
       ELSE [status |-> 200, users |-> users, page |-> NoPage,
             tokens |-> tokens \cup {[sub |-> users[db_user.val].username, uid |-> db_user.val]}]

users_update_user(tok, user_id, field, value) ==
    LET cur == get_current_active_user(tok)
        by_username == get_user_by_username(value)
        by_email == get_user_by_email(value)
        upd == crud_user_update_user(user_id, field, value)
    IN IF cur.status # 200 THEN UserReply(cur.status, users)
       ELSE IF cur.uid # user_id /\ ~users[cur.uid].is_admin THEN UserReply(403, users)
       ELSE IF field = "username" /\ value # "" /\ by_username.exc # 0 THEN UserReply(by_username.exc, users)
       ELSE IF field = "username" /\ value # "" /\ by_username.val # 0 /\ by_username.val # user_id THEN UserReply(400, users)
       ELSE IF field = "email" /\ value # "" /\ by_email.exc # 0 THEN UserReply(by_email.exc, users)
       ELSE IF field = "email" /\ value # "" /\ by_email.val # 0 /\ by_email.val # user_id THEN UserReply(400, users)
       ELSE IF upd.exc # 0 THEN UserReply(upd.exc, users)
       ELSE IF upd.val = 0 THEN UserReply(404, users)
       ELSE UserReply(200, upd.users)

\* "except Exception" is the handler's only except clause: the 403 and the 404
\* raised inside the try block leave it as 500
users_delete_user(tok, user_id) ==
    LET cur == get_current_active_user(tok)
        del == crud_user_delete_user(user_id)
    IN IF cur.status # 200 THEN UserReply(cur.status, users)
       ELSE IF cur.uid # user_id /\ ~users[cur.uid].is_admin THEN UserReply(500, users)
       ELSE IF ~del.val THEN UserReply(500, users)
       ELSE UserReply(200, del.users)

users_restore_user(tok, user_id) ==
    LET admin == require_admin(tok)
        res == crud_user_restore_user(user_id)
    IN IF admin.status # 200 THEN UserReply(admin.status, users)
       ELSE IF ~res.val THEN UserReply(404, users)
       ELSE UserReply(200, res.users)

users_read_deleted_users(tok, skip, limit) ==
    LET admin == require_admin(tok)
    IN IF admin.status # 200 THEN UserReply(admin.status, users)
       ELSE [status |-> 200, users |-> users, tokens |-> tokens,
             page |-> [NoPage EXCEPT !.items = get_deleted_users(skip, limit)]]

----------------------------------------------------------------------------
(* Posts: app/models/post.py and app/crud/post.py.                         *)
(* class Post(Base, TimestampMixin) does not take SoftDeleteMixin: it has   *)
(* no is_deleted / deleted_at column and no soft_delete() / restore().     *)
(* Every query that names Post.is_deleted, and every use of those members  *)
(* on a Post row, raises AttributeError where the code evaluates it.       *)

\* [exc, val]: the filter Post.is_deleted == False is built inside the try
\* block, so the except clause answers every call with HTTPException(500)
get_post(post_id) == [exc |-> 500, val |-> 0]

\* get_posts_paginated / get_deleted_posts_paginated: the same AttributeError,
\* but their except clause returns ([], 0)
get_posts_paginated(skip, limit) == [items |-> <<>>, total |-> 0]
get_deleted_posts_paginated(skip, limit) == [items |-> <<>>, total |-> 0]

\* [exc, val, posts]; the foreign key posts.author_id -> users.id
crud_post_create_post(title, content, author_id) ==
    IF author_id \notin DOMAIN users THEN [exc |-> 400, val |-> 0, posts |-> posts]
    ELSE [exc |-> 0, val |-> Len(posts) + 1,
          posts |-> Append(posts, [title |-> title, content |-> content, author_id |-> author_id])]

\* get_post is called before the try block: its HTTPException propagates
crud_post_update_post(post_id, content) ==
    LET db_post == get_post(post_id)
    IN IF db_post.exc # 0 THEN [exc |-> db_post.exc, val |-> 0, posts |-> posts]
       ELSE IF db_post.val = 0 THEN [exc |-> 0, val |-> 0, posts |-> posts]
       ELSE [exc |-> 0, val |-> db_post.val, posts |-> [posts EXCEPT ![db_post.val].content = content]]

\* [exc, val]; db_post.soft_delete() does not exist on a Post
crud_post_delete_post(post_id) ==
    LET db_post == get_post(post_id)
    IN IF db_post.exc # 0 THEN [exc |-> db_post.exc, val |-> FALSE]
       ELSE IF db_post.val = 0 THEN [exc |-> 0, val |-> FALSE]
       ELSE [exc |-> 500, val |-> FALSE]

\* [exc, val]; the row is selected by id alone, then db_post.is_deleted is read
crud_post_restore_post(post_id) ==
    IF post_id \in DOMAIN posts THEN [exc |-> 500, val |-> FALSE]
    ELSE [exc |-> 0, val |-> FALSE]

\* [exc, val, post_tags]
crud_post_add_tag_to_post(post_id, tag_id) ==
    LET db_post == get_post(post_id)
        db_tag == IF tag_id \in DOMAIN tags /\ ~tags[tag_id].is_deleted THEN tag_id ELSE 0
    IN IF db_post.exc # 0 THEN [exc |-> db_post.exc, val |-> FALSE, post_tags |-> post_tags]
       ELSE IF db_post.val = 0 \/ db_tag = 0 THEN [exc |-> 0, val |-> FALSE, post_tags |-> post_tags]
       ELSE [exc |-> 0, val |-> TRUE, post_tags |-> post_tags \cup {<<post_id, tag_id>>}]

crud_post_remove_tag_from_post(post_id, tag_id) ==
    LET db_post == get_post(post_id)
        db_tag == IF tag_id \in DOMAIN tags THEN tag_id ELSE 0
    IN IF db_post.exc # 0 THEN [exc |-> db_post.exc, val |-> FALSE, post_tags |-> post_tags]
       ELSE IF db_post.val = 0 \/ db_tag = 0 THEN [exc |-> 0, val |-> FALSE, post_tags |-> post_tags]
       ELSE [exc |-> 0, val |-> TRUE, post_tags |-> post_tags \ {<<post_id, tag_id>>}]

\* [exc, val, comments]; app/crud/comment.py
crud_comment_create_comment(content, post_id, author_id) ==
    IF post_id \notin DOMAIN posts \/ author_id \notin DOMAIN users
    THEN [exc |-> 400, val |-> 0, comments |-> comments]
    ELSE [exc |-> 0, val |-> Len(comments) + 1,
          comments |-> Append(comments, [content |-> content, post_id |-> post_id, author_id |-> author_id,
                                         is_deleted |-> FALSE, deleted_at |-> None])]

----------------------------------------------------------------------------
(* Posts: app/api/routes/posts.py.                                         *)
(* Every handler yields [status, posts, comments, post_tags, page].        *)

\* a faulty ownership check that lets every authenticated user through
IsAuthorOrAdmin_anyone(author_id, uid) == TRUE

\* the ownership check of the mutating handlers: the author, or an admin
IsAuthorOrAdmin(author_id, uid) == author_id = uid \/ users[uid].is_admin

PostReply(status) ==
    [status |-> status, posts |-> posts, comments |-> comments, post_tags |-> post_tags, page |-> NoPage]

\* a create_post without the author check
posts_create_post_any_author(tok, author_id, content) ==
    LET cur == get_current_active_user(tok)
        made == crud_post_create_post("t0", content, author_id)
    IN IF cur.status # 200 THEN PostReply(cur.status)
       ELSE IF get_user(author_id) = 0 THEN PostReply(404)
       ELSE IF made.exc # 0 THEN PostReply(made.exc)
       ELSE [PostReply(201) EXCEPT !.posts = made.posts]

posts_create_post(tok, author_id, content) ==
    LET cur == get_current_active_user(tok)
        made == crud_post_create_post("t0", content, author_id)
    IN IF cur.status # 200 THEN PostReply(cur.status)
       ELSE IF author_id # cur.uid /\ ~users[cur.uid].is_admin THEN PostReply(403)
       ELSE IF get_user(author_id) = 0 THEN PostReply(404)
       ELSE IF made.exc # 0 THEN PostReply(made.exc)
       ELSE [PostReply(201) EXCEPT !.posts = made.posts]

posts_read_posts(skip, limit) ==
    LET got == get_posts_paginated(skip, limit)
    IN [PostReply(200) EXCEPT !.page = Paginated(got.items, got.total, skip, limit)]

posts_read_post(post_id) ==
    LET db_post == get_post(post_id)
    IN IF db_post.exc # 0 THEN PostReply(db_post.exc)
       ELSE IF db_post.val = 0 THEN PostReply(404)
       ELSE PostReply(200)

posts_update_post(tok, post_id, content) ==
    LET cur == get_current_active_user(tok)
        db_post == get_post(post_id)
        upd == crud_post_update_post(post_id, content)
    IN IF cur.status # 200 THEN PostReply(cur.status)
       ELSE IF db_post.exc # 0 THEN PostReply(db_post.exc)
       ELSE IF db_post.val = 0 THEN PostReply(404)
       ELSE IF ~IsAuthorOrAdmin(posts[db_post.val].author_id, cur.uid) THEN PostReply(403)
       ELSE IF upd.exc # 0 THEN PostReply(upd.exc)
       ELSE IF upd.val = 0 THEN PostReply(500)
       ELSE [PostReply(200) EXCEPT !.posts = upd.posts]

\* "except Exception" is the handler's only except clause: every HTTPException
\* raised inside the try block (404, 403, the 500 of get_post) leaves it as 500
posts_delete_post(tok, post_id) ==
    LET cur == get_current_active_user(tok)
        db_post == get_post(post_id)
        del == crud_post_delete_post(post_id)
    IN IF cur.status # 200 THEN PostReply(cur.status)
       ELSE IF db_post.exc # 0 THEN PostReply(500)
       ELSE IF db_post.val = 0 THEN PostReply(500)
       ELSE IF ~IsAuthorOrAdmin(posts[db_post.val].author_id, cur.uid) THEN PostReply(500)
       ELSE IF del.exc # 0 \/ ~del.val THEN PostReply(500)
       ELSE PostReply(200)

posts_restore_post(tok, post_id) ==
    LET cur == get_current_active_user(tok)
        res == crud_post_restore_post(post_id)
        db_post == get_post(post_id)
    IN IF cur.status # 200 THEN PostReply(cur.status)
       ELSE IF ~users[cur.uid].is_admin THEN PostReply(403)
       ELSE IF res.exc # 0 THEN PostReply(res.exc)
       ELSE IF ~res.val THEN PostReply(404)
       ELSE IF db_post.exc # 0 THEN PostReply(db_post.exc)
       ELSE PostReply(200)

posts_read_deleted_posts(tok, skip, limit) ==
    LET cur == get_current_active_user(tok)
        got == get_deleted_posts_paginated(skip, limit)
    IN IF cur.status # 200 THEN PostReply(cur.status)
       ELSE IF ~users[cur.uid].is_admin THEN PostReply(403)
       ELSE [PostReply(200) EXCEPT !.page = Paginated(got.items, got.total, skip, limit)]

\* the comment's author is the authenticated user
posts_create_comment_for_post(tok, post_id, content) ==
    LET cur == get_current_active_user(tok)
        db_post == get_post(post_id)
        made == crud_comment_create_comment(content, post_id, cur.uid)
    IN IF cur.status # 200 THEN PostReply(cur.status)
       ELSE IF db_post.exc # 0 THEN PostReply(db_post.exc)
       ELSE IF db_post.val = 0 THEN PostReply(404)
       ELSE IF made.exc # 0 THEN PostReply(made.exc)
       ELSE [PostReply(201) EXCEPT !.comments = made.comments]

posts_add_tag_to_post(tok, post_id, tag_id) ==
    LET cur == get_current_active_user(tok)
        db_post == get_post(post_id)
        added == crud_post_add_tag_to_post(post_id, tag_id)
    IN IF cur.status # 200 THEN PostReply(cur.status)
       ELSE IF db_post.exc # 0 THEN PostReply(db_post.exc)
       ELSE IF db_post.val = 0 THEN PostReply(404)
       ELSE IF ~IsAuthorOrAdmin(posts[db_post.val].author_id, cur.uid) THEN PostReply(403)
       ELSE IF added.exc # 0 THEN PostReply(added.exc)
       ELSE IF ~added.val THEN PostReply(404)
       ELSE [PostReply(200) EXCEPT !.post_tags = added.post_tags]

posts_remove_tag_from_post(tok, post_id, tag_id) ==
    LET cur == get_current_active_user(tok)
        db_post == get_post(post_id)
        removed == crud_post_remove_tag_from_post(post_id, tag_id)
    IN IF cur.status # 200 THEN PostReply(cur.status)
       ELSE IF db_post.exc # 0 THEN PostReply(db_post.exc)
       ELSE IF db_post.val = 0 THEN PostReply(404)
       ELSE IF ~IsAuthorOrAdmin(posts[db_post.val].author_id, cur.uid) THEN PostReply(403)
       ELSE IF removed.exc # 0 THEN PostReply(removed.exc)
       ELSE IF ~removed.val THEN PostReply(404)
       ELSE [PostReply(200) EXCEPT !.post_tags = removed.post_tags]

----------------------------------------------------------------------------
(* Comments: app/api/routes/comments.py (the handlers query the table      *)
(* themselves).  Every handler yields [status, comments, page].            *)

CommentReply(status, newcomments) == [status |-> status, comments |-> newcomments, page |-> NoPage]

\* select(CommentModel).filter(id == comment_id, is_deleted == False)
ActiveComment(comment_id) ==
    IF comment_id \in DOMAIN comments /\ ~comments[comment_id].is_deleted THEN comment_id ELSE 0

comments_read_comment(comment_id) ==
    IF ActiveComment(comment_id) = 0 THEN CommentReply(404, comments) ELSE CommentReply(200, comments)

comments_update_comment(tok, comment_id, content) ==
    LET cur == get_current_active_user(tok)
        db_comment == ActiveComment(comment_id)
    IN IF cur.status # 200 THEN CommentReply(cur.status, comments)
       ELSE IF db_comment = 0 THEN CommentReply(404, comments)
       ELSE IF ~IsAuthorOrAdmin(comments[db_comment].author_id, cur.uid) THEN CommentReply(403, comments)
       ELSE CommentReply(200, [comments EXCEPT ![db_comment].content = content])

\* "except Exception" is the handler's only except clause: the 404 and the 403
\* raised inside the try block leave it as 500
comments_delete_comment(tok, comment_id) ==
    LET cur == get_current_active_user(tok)
        db_comment == ActiveComment(comment_id)
    IN IF cur.status # 200 THEN CommentReply(cur.status, comments)
       ELSE IF db_comment = 0 THEN CommentReply(500, comments)
       ELSE IF ~IsAuthorOrAdmin(comments[db_comment].author_id, cur.uid) THEN CommentReply(500, comments)
       ELSE CommentReply(204, [comments EXCEPT ![db_comment] = soft_delete(@)])

comments_restore_comment(tok, comment_id) ==
    LET cur == get_current_active_user(tok)
    IN IF cur.status # 200 THEN CommentReply(cur.status, comments)
       ELSE IF ~users[cur.uid].is_admin THEN CommentReply(403, comments)
       ELSE IF comment_id \notin DOMAIN comments \/ ~comments[comment_id].is_deleted
            THEN CommentReply(404, comments)
       ELSE CommentReply(200, [comments EXCEPT ![comment_id] = restore(@)])

comments_read_deleted_comments(tok, skip, limit) ==
    LET cur == get_current_active_user(tok)
        deleted == {c \in DOMAIN comments : comments[c].is_deleted}
    IN IF cur.status # 200 THEN CommentReply(cur.status, comments)
       ELSE IF ~users[cur.uid].is_admin THEN CommentReply(403, comments)
       ELSE [status |-> 200, comments |-> comments,
             page |-> [NoPage EXCEPT !.items = OffsetLimit(ByDeletedAtDesc(comments, deleted), skip, limit)]]

----------------------------------------------------------------------------
(* Google sign-in: app/api/routes/auth_google.py *)

\* email.split("@")[0] on the addresses in use
LocalPart(email) ==
    CASE email = "root@x" -> "root" [] email = "ann@x" -> "ann"
      [] email = "bob@x" -> "bob" [] OTHER -> "cat"

\* the while loop: username, username_1, username_2, ... until one is free
RECURSIVE FreeUsername(_, _)
FreeUsername(username, counter) ==
    LET temp_username == IF counter = 0 THEN username ELSE username \o "_" \o ToString(counter)
    IN IF get_user_by_username(temp_username).val = 0 THEN temp_username
       ELSE FreeUsername(username, counter + 1)

\* email is the address in Google's userinfo; db_fails says whether the first
\* database operation raises.  The handler's only except clause is
\* "except Exception", which answers 400 whatever was raised inside.
\* [status, users, tokens, page]; 307 is the RedirectResponse
auth_google_callback(email, db_fails) ==
    LET by_email == get_user_by_email(email)
        user_create == [username |-> FreeUsername(LocalPart(email), 0), email |-> email,
                        password |-> "token_urlsafe", is_active |-> TRUE, is_admin |-> FALSE]
        made == crud_user_create_user(user_create)
        db_user == IF by_email.val # 0 THEN by_email.val ELSE made.val
    IN IF db_fails THEN UserReply(400, users)
       ELSE IF by_email.exc # 0 THEN UserReply(400, users)
       ELSE IF by_email.val = 0 /\ made.exc # 0 THEN UserReply(400, users)
       ELSE [status |-> 307, page |-> NoPage,
             users |-> IF by_email.val # 0 THEN users ELSE made.users,
             tokens |-> tokens \cup {[sub |-> ToString(db_user), uid |-> db_user]}]

----------------------------------------------------------------------------
(* Handlers whose database operation fails unexpectedly (the connection    *)
(* drops, a statement times out): what their except clauses answer.        *)

\* get_users_paginated: "except Exception" returns ([], 0)
get_users_paginated_db_failure(skip, limit) == [items |-> <<>>, total |-> 0]

\* read_users is handed ([], 0) and answers 200
users_read_users_db_failure(skip, limit) ==
    LET got == get_users_paginated_db_failure(skip, limit)
    IN [status |-> 200, users |-> users, tokens |-> tokens, page |-> Paginated(got.items, got.total, skip, limit)]

\* create_user: get_user_by_username raises HTTPException(500), re-raised by
\* the handler's "except HTTPException"
users_create_user_db_failure(user) == UserReply(500, users)

----------------------------------------------------------------------------
(* The database at start: three users holding tokens (an admin and two     *)
(* regular users), one post, one tag and two comments.  No request can     *)
(* create a comment (see posts_create_comment_for_post), so the comments   *)
(* under study are rows already stored.                                    *)

UserRow(username, email, is_admin) ==
    [username |-> username, email |-> email, hashed_password |-> get_password_hash("pw"),
     is_active |-> TRUE, is_admin |-> is_admin, is_deleted |-> FALSE, deleted_at |-> None]
CommentRow(author_id) ==
    [content |-> "c0", post_id |-> 1, author_id |-> author_id, is_deleted |-> FALSE, deleted_at |-> None]

SeedUsers == <<UserRow("root", "root@x", TRUE), UserRow("ann", "ann@x", FALSE), UserRow("bob", "bob@x", FALSE)>>
SeedTokens == {[sub |-> SeedUsers[i].username, uid |-> i] : i \in DOMAIN SeedUsers}
SeedPosts == <<[title |-> "t0", content |-> "c0", author_id |-> 2]>>
SeedComments == <<CommentRow(2), CommentRow(3)>>
SeedTags == <<[name |-> "go", is_deleted |-> FALSE, deleted_at |-> None]>>

InitDb ==
    /\ users = SeedUsers
    /\ posts = SeedPosts
    /\ comments = SeedComments
    /\ tags = SeedTags
    /\ post_tags = {}
    /\ tokens = SeedTokens
    /\ now = 1
    /\ last = NoRequest
    /\ sessions = [s \in Sessions |-> NoSession]

----------------------------------------------------------------------------
(* Requests.  A handler runs when no response is pending; Deliver hands    *)
(* the response to the client.                                              *)

Idle == last = NoRequest

\* session.commit(): a request that changes the database uses up one unit
\* of the exploration budget and lets the clock advance
Commit ==
    /\ budget' = IF db' # db THEN budget - 1 ELSE budget
    /\ budget' >= 0
    /\ now' = IF db' # db THEN now + 1 ELSE now

Respond(req, status, pre, page) ==
    last' = [req EXCEPT !.status = status, !.pre = pre, !.page = page]

Deliver ==
    /\ ~Idle
    /\ last' = NoRequest
    /\ UNCHANGED <<users, posts, comments, tags, post_tags, tokens, now, budget, sessions, storage>>

Tokens == tokens \cup {NoToken}
Skips == 0..MaxSkip
Limits == 1..MaxLimit
UserIds == 1..(Len(users) + 1)
TagIds == 1..(Len(tags) + 1)
PostIds == 1..(Len(posts) + 1)
CommentIds == 1..(Len(comments) + 1)
UserPatches ==
    {<<"username", "cat">>, <<"username", "ann">>, <<"email", "ann@x">>,
     <<"is_admin", "true">>, <<"is_active", "false">>}

UsersStep(req, r, pre) ==
    /\ users' = r.users
    /\ tokens' = r.tokens
    /\ Respond(req, r.status, pre, r.page)
    /\ UNCHANGED <<posts, comments, tags, post_tags, sessions, storage>>
    /\ Commit

RegisterUser ==
    /\ Idle
    /\ \E username \in Usernames, email \in Emails :
           LET user == [username |-> username, email |-> email, password |-> "pw",
                        is_active |-> TRUE, is_admin |-> FALSE]
           IN UsersStep([Request("register_user", NoToken, 0, username) EXCEPT !.arg2 = email],
                        auth_register_user(user), "")

CreateUser ==
    /\ Idle
    /\ \E username \in Usernames, email \in Emails, is_admin \in BOOLEAN :
           LET user == [username |-> username, email |-> email, password |-> "pw",
                        is_active |-> TRUE, is_admin |-> is_admin]
           IN UsersStep([Request("create_user", NoToken, 0, username) EXCEPT !.arg2 = email, !.flag = is_admin],
                        users_create_user(user), "")

LoginUser ==
    /\ Idle
    /\ \E username \in Usernames, password \in Passwords :
           UsersStep([Request("login_user", NoToken, 0, username) EXCEPT !.arg2 = password],
                     auth_login_user(username, password), "")

ReadUsers ==
    /\ Idle
    /\ \E skip \in Skips, limit \in Limits :
           UsersStep(ListRequest("read_users", NoToken, skip, limit), users_read_users(skip, limit), "")

ReadUserMe ==
    /\ Idle
    /\ \E tok \in Tokens : UsersStep(Request("read_user_me", tok, 0, ""), users_read_user_me(tok), "")

ReadUser ==
    /\ Idle
    /\ \E user_id \in UserIds :
           UsersStep(Request("read_user", NoToken, user_id, ""), users_read_user(user_id), RowState(users, user_id))

UpdateUser ==
    /\ Idle
    /\ \E tok \in Tokens, user_id \in UserIds, patch \in UserPatches :
           UsersStep([Request("update_user", tok, user_id, patch[1]) EXCEPT !.arg2 = patch[2]],
                     users_update_user(tok, user_id, patch[1], patch[2]), RowState(users, user_id))

DeleteUser ==
    /\ Idle
    /\ \E tok \in Tokens, user_id \in UserIds :
           UsersStep(Request("delete_user", tok, user_id, ""), users_delete_user(tok, user_id), RowState(users, user_id))

RestoreUser ==
    /\ Idle
    /\ \E tok \in Tokens, user_id \in UserIds :
           UsersStep(Request("restore_user", tok, user_id, ""), users_restore_user(tok, user_id), RowState(users, user_id))

ReadDeletedUsers ==
    /\ Idle
    /\ \E tok \in Tokens, skip \in Skips, limit \in Limits :
           UsersStep(ListRequest("read_deleted_users", tok, skip, limit), users_read_deleted_users(tok, skip, limit), "")

TagsStep(req, r, pre) ==
    /\ tags' = r.tags
    /\ Respond(req, r.status, pre, r.page)
    /\ UNCHANGED <<users, posts, comments, post_tags, tokens, sessions, storage>>
    /\ Commit

CreateTag ==
    /\ Idle
    /\ \E tok \in Tokens, name \in TagNames :
           TagsStep(Request("create_tag", tok, 0, name), tags_create_tag(tok, name), "")

ReadTags ==
    /\ Idle
    /\ \E skip \in Skips, limit \in Limits :
           TagsStep(ListRequest("read_tags", NoToken, skip, limit), tags_read_tags(skip, limit), "")

ReadTag ==
    /\ Idle
    /\ \E tag_id \in TagIds :
           TagsStep(Request("read_tag", NoToken, tag_id, ""), tags_read_tag(tag_id), RowState(tags, tag_id))

UpdateTag ==
    /\ Idle
    /\ \E tok \in Tokens, tag_id \in TagIds, name \in TagNames :
           TagsStep(Request("update_tag", tok, tag_id, name), tags_update_tag(tok, tag_id, name), RowState(tags, tag_id))

DeleteTag ==
    /\ Idle
    /\ \E tok \in Tokens, tag_id \in TagIds :
           TagsStep(Request("delete_tag", tok, tag_id, ""), tags_delete_tag(tok, tag_id), RowState(tags, tag_id))

RestoreTag ==
    /\ Idle
    /\ \E tok \in Tokens, tag_id \in TagIds :
           TagsStep(Request("restore_tag", tok, tag_id, ""), tags_restore_tag(tok, tag_id), RowState(tags, tag_id))

ReadDeletedTags ==
    /\ Idle
    /\ \E tok \in Tokens, skip \in Skips, limit \in Limits :
           TagsStep(ListRequest("read_deleted_tags", tok, skip, limit), tags_read_deleted_tags(tok, skip, limit), "")

PostsStep(req, r) ==
    /\ posts' = r.posts
    /\ comments' = r.comments
    /\ post_tags' = r.post_tags
    /\ Respond(req, r.status, IF req.id \in DOMAIN posts THEN "active" ELSE "missing", r.page)
    /\ UNCHANGED <<users, tags, tokens, sessions, storage>>
    /\ Commit

CreatePost ==
    /\ Idle
    /\ \E tok \in Tokens, author_id \in UserIds :
           PostsStep(Request("create_post", tok, author_id, "c0"), posts_create_post(tok, author_id, "c0"))

ReadPosts ==
    /\ Idle
    /\ \E skip \in Skips, limit \in Limits :
           PostsStep(ListRequest("read_posts", NoToken, skip, limit), posts_read_posts(skip, limit))

ReadPost ==
    /\ Idle
    /\ \E post_id \in PostIds : PostsStep(Request("read_post", NoToken, post_id, ""), posts_read_post(post_id))

UpdatePost ==
    /\ Idle
    /\ \E tok \in Tokens, post_id \in PostIds :
           PostsStep(Request("update_post", tok, post_id, "c1"), posts_update_post(tok, post_id, "c1"))

DeletePost ==
    /\ Idle
    /\ \E tok \in Tokens, post_id \in PostIds :
           PostsStep(Request("delete_post", tok, post_id, ""), posts_delete_post(tok, post_id))

RestorePost ==
    /\ Idle
    /\ \E tok \in Tokens, post_id \in PostIds :
           PostsStep(Request("restore_post", tok, post_id, ""), posts_restore_post(tok, post_id))

ReadDeletedPosts ==
    /\ Idle
    /\ \E tok \in Tokens, skip \in Skips, limit \in Limits :
           PostsStep(ListRequest("read_deleted_posts", tok, skip, limit), posts_read_deleted_posts(tok, skip, limit))

CreateCommentForPost ==
    /\ Idle
    /\ \E tok \in Tokens, post_id \in PostIds :
           PostsStep(Request("create_comment_for_post", tok, post_id, "c0"),
                     posts_create_comment_for_post(tok, post_id, "c0"))

AddTagToPost ==
    /\ Idle
    /\ \E tok \in Tokens, post_id \in PostIds, tag_id \in TagIds :
           PostsStep([Request("add_tag_to_post", tok, post_id, "") EXCEPT !.id2 = tag_id],
                     posts_add_tag_to_post(tok, post_id, tag_id))

RemoveTagFromPost ==
    /\ Idle
    /\ \E tok \in Tokens, post_id \in PostIds, tag_id \in TagIds :
           PostsStep([Request("remove_tag_from_post", tok, post_id, "") EXCEPT !.id2 = tag_id],
                     posts_remove_tag_from_post(tok, post_id, tag_id))

CommentsStep(req, r) ==
    /\ comments' = r.comments
    /\ Respond(req, r.status, RowState(comments, req.id), r.page)
    /\ UNCHANGED <<users, posts, tags, post_tags, tokens, sessions, storage>>
    /\ Commit

ReadComment ==
    /\ Idle
    /\ \E comment_id \in CommentIds :
           CommentsStep(Request("read_comment", NoToken, comment_id, ""), comments_read_comment(comment_id))

UpdateComment ==
    /\ Idle
    /\ \E tok \in Tokens, comment_id \in CommentIds, content \in Contents :
           CommentsStep(Request("update_comment", tok, comment_id, content),
                        comments_update_comment(tok, comment_id, content))

DeleteComment ==
    /\ Idle
    /\ \E tok \in Tokens, comment_id \in CommentIds :
           CommentsStep(Request("delete_comment", tok, comment_id, ""), comments_delete_comment(tok, comment_id))

RestoreComment ==
    /\ Idle
    /\ \E tok \in Tokens, comment_id \in CommentIds :
           CommentsStep(Request("restore_comment", tok, comment_id, ""), comments_restore_comment(tok, comment_id))

ReadDeletedComments ==
    /\ Idle
    /\ \E tok \in Tokens, skip \in Skips, limit \in Limits :
           CommentsStep(ListRequest("read_deleted_comments", tok, skip, limit),
                        comments_read_deleted_comments(tok, skip, limit))

GoogleCallback ==
    /\ Idle
    /\ \E email \in Emails, db_fails \in BOOLEAN :
           UsersStep([Request(IF db_fails THEN "google_callback_db_failure" ELSE "google_callback",
                              NoToken, 0, "") EXCEPT !.arg2 = email],
                     auth_google_callback(email, db_fails), "")

ReadUsersDbFailure ==
    /\ Idle
    /\ \E skip \in Skips, limit \in Limits :
           UsersStep(ListRequest("read_users_db_failure", NoToken, skip, limit),
                     users_read_users_db_failure(skip, limit), "")

CreateUserDbFailure ==
    /\ Idle
    /\ \E username \in Usernames, email \in Emails :
           LET user == [username |-> username, email |-> email, password |-> "pw",
                        is_active |-> TRUE, is_admin |-> FALSE]
           IN UsersStep([Request("create_user_db_failure", NoToken, 0, username) EXCEPT !.arg2 = email],
                        users_create_user_db_failure(user), "")

----------------------------------------------------------------------------
(* Concurrent requests.  Each request has its own AsyncSession; the        *)
(* database runs one statement at a time, and a SELECT sees what has been  *)
(* committed when it runs.                                                  *)

Finish(s, status) == [sessions[s] EXCEPT !.pc = "done", !.status = status]

\* the response reaches the client and the session is closed
SessionClose ==
    \E s \in Sessions :
        /\ sessions[s].pc = "done"
        /\ sessions' = [sessions EXCEPT ![s] = NoSession]
        /\ UNCHANGED <<users, posts, comments, tags, post_tags, tokens, now, budget, last, storage>>

\* routes/tags.py create_tag up to its own get_tag_by_name
CreateTagRouteCheck ==
    \E s \in Sessions, tok \in Tokens, name \in TagNames :
        /\ sessions[s].pc = "idle"
        /\ LET cur == get_current_active_user(tok)
               db_tag == get_tag_by_name(name)
               req == [NoSession EXCEPT !.op = "create_tag", !.tok = tok, !.name = name]
               done(status) == [req EXCEPT !.pc = "done", !.status = status]
           IN sessions' = [sessions EXCEPT ![s] =
                  IF cur.status # 200 THEN done(cur.status)
                  ELSE IF ~users[cur.uid].is_admin THEN done(403)
                  ELSE IF db_tag.exc # 0 THEN done(db_tag.exc)
                  ELSE IF db_tag.val # 0 THEN done(400)
                  ELSE [req EXCEPT !.pc = "route_checked"]]
        /\ UNCHANGED <<users, posts, comments, tags, post_tags, tokens, now, budget, last, storage>>

\* crud/tag.py create_tag: its get_tag_by_name
CreateTagCrudCheck ==
    \E s \in Sessions :
        /\ sessions[s].pc = "route_checked"
        /\ LET existing == get_tag_by_name(sessions[s].name)
           IN sessions' = [sessions EXCEPT ![s] =
                  IF existing.exc # 0 THEN Finish(s, existing.exc)
                  ELSE IF existing.val # 0 THEN Finish(s, 400)
                  ELSE [@ EXCEPT !.pc = "crud_checked", !.passed = TRUE]]
        /\ UNCHANGED <<users, posts, comments, tags, post_tags, tokens, now, budget, last, storage>>

\* crud/tag.py create_tag: db.add, db.commit; the IntegrityError of the
\* unique index is answered 400
CreateTagInsert ==
    \E s \in Sessions :
        /\ sessions[s].pc = "crud_checked"
        /\ IF TagNameTaken(sessions[s].name, 0)
           THEN /\ tags' = tags
                /\ sessions' = [sessions EXCEPT ![s] = Finish(s, 400)]
           ELSE /\ tags' = Append(tags, [name |-> sessions[s].name, is_deleted |-> FALSE, deleted_at |-> None])
                /\ sessions' = [sessions EXCEPT ![s] = Finish(s, 201)]
        /\ UNCHANGED <<users, posts, comments, post_tags, tokens, last, storage>>
        /\ Commit

DeleteOps == {"delete_user", "delete_comment"}
UserOps == {"delete_user", "restore_user"}
CommentOps == {"delete_comment", "restore_comment"}

\* a row under a version counter: the UPDATE of a session whose row was
\* written since it was read changes nothing
SessionWrite_versioned(op, overlap, row) ==
    IF overlap THEN row
    ELSE IF op \in DeleteOps THEN soft_delete(row) ELSE restore(row)

\* db.commit() after soft_delete() / restore() on the loaded object:
\* UPDATE ... SET is_deleted, deleted_at WHERE id = the row's id
SessionWrite(op, overlap, row) ==
    IF op \in DeleteOps THEN soft_delete(row) ELSE restore(row)

\* the other sessions that hold the same row loaded see it written
Overlapped(s) ==
    [t \in Sessions |->
        IF /\ t # s
           /\ sessions[t].pc = "loaded"
           /\ (sessions[t].op \in UserOps) = (sessions[s].op \in UserOps)
           /\ sessions[t].id = sessions[s].id
        THEN [sessions[t] EXCEPT !.overlap = TRUE]
        ELSE sessions[t]]

\* delete_user / restore_user up to the commit: the caller is authenticated
\* and the row is read; a handler that has nothing to write answers at once
UserSoftRead ==
    \E s \in Sessions, op \in UserOps, tok \in Tokens, user_id \in UserIds :
        /\ sessions[s].pc = "idle"
        /\ LET r == IF op = "delete_user" THEN users_delete_user(tok, user_id)
                    ELSE users_restore_user(tok, user_id)
               req == [NoSession EXCEPT !.op = op, !.id = user_id, !.status = r.status]
           IN sessions' = [sessions EXCEPT ![s] =
                  IF r.users = users THEN [req EXCEPT !.pc = "done"]
                  ELSE [req EXCEPT !.pc = "loaded"]]
        /\ UNCHANGED <<users, posts, comments, tags, post_tags, tokens, now, budget, last, storage>>

UserSoftCommit ==
    \E s \in Sessions :
        /\ sessions[s].pc = "loaded"
        /\ sessions[s].op \in UserOps
        /\ users' = [users EXCEPT ![sessions[s].id] = SessionWrite(sessions[s].op, sessions[s].overlap, @)]
        /\ sessions' = [Overlapped(s) EXCEPT ![s] = [sessions[s] EXCEPT !.pc = "done"]]
        /\ UNCHANGED <<posts, comments, tags, post_tags, tokens, last, storage>>
        /\ Commit

\* delete_comment / restore_comment up to the commit
CommentSoftRead ==
    \E s \in Sessions, op \in CommentOps, tok \in Tokens, comment_id \in CommentIds :
        /\ sessions[s].pc = "idle"
        /\ LET r == IF op = "delete_comment" THEN comments_delete_comment(tok, comment_id)
                    ELSE comments_restore_comment(tok, comment_id)
               req == [NoSession EXCEPT !.op = op, !.id = comment_id, !.status = r.status]
           IN sessions' = [sessions EXCEPT ![s] =
                  IF r.comments = comments THEN [req EXCEPT !.pc = "done"]
                  ELSE [req EXCEPT !.pc = "loaded"]]
        /\ UNCHANGED <<users, posts, comments, tags, post_tags, tokens, now, budget, last, storage>>

CommentSoftCommit ==
    \E s \in Sessions :
        /\ sessions[s].pc = "loaded"
        /\ sessions[s].op \in CommentOps
        /\ comments' = [comments EXCEPT ![sessions[s].id] = SessionWrite(sessions[s].op, sessions[s].overlap, @)]
        /\ sessions' = [Overlapped(s) EXCEPT ![s] = [sessions[s] EXCEPT !.pc = "done"]]
        /\ UNCHANGED <<users, posts, tags, post_tags, tokens, last, storage>>
        /\ Commit

\* the listings whose handler runs an item query and then a count query
PageOps == {"read_users", "read_tags"}
PageRows(op) == IF op = "read_users" THEN users ELSE tags

\* the first statement of get_users_paginated / get_tags_paginated: the
\* active rows, newest first, cut to the page
PageItemsQuery(op, skip, limit) ==
    OffsetLimit(DescIds({i \in DOMAIN PageRows(op) : ~PageRows(op)[i].is_deleted}), skip, limit)

\* their second statement: select count() over the active rows
PageCountQuery(op) ==
    Cardinality({i \in DOMAIN PageRows(op) : ~PageRows(op)[i].is_deleted})

\* read_users / read_tags up to the end of the item query
PageItemsRead ==
    \E s \in Sessions, op \in PageOps, skip \in Skips, limit \in Limits :
        /\ sessions[s].pc = "idle"
        /\ sessions' = [sessions EXCEPT ![s] =
               [NoSession EXCEPT !.op = op, !.pc = "items_read", !.skip = skip, !.limit = limit,
                                 !.page = [NoPage EXCEPT !.items = PageItemsQuery(op, skip, limit)]]]
        /\ UNCHANGED <<users, posts, comments, tags, post_tags, tokens, now, budget, last, storage>>

\* the count query and the handler's PaginatedResponse
PageCountRead ==
    \E s \in Sessions :
        /\ sessions[s].pc = "items_read"
        /\ sessions[s].op \in PageOps
        /\ sessions' = [sessions EXCEPT ![s] =
               [@ EXCEPT !.pc = "done", !.status = 200,
                         !.page = Paginated(sessions[s].page.items, PageCountQuery(sessions[s].op),
                                            sessions[s].skip, sessions[s].limit)]]
        /\ UNCHANGED <<users, posts, comments, tags, post_tags, tokens, now, budget, last, storage>>

----------------------------------------------------------------------------
(* Rate limits: @limiter.limit("N/minute") with key_func=get_remote_address. *)
(* The Limiter is built with its defaults: the fixed-window strategy over    *)
(* in-memory storage, one counter per client address and request path.  A    *)
(* counter's window opens with the first request counted and lasts a minute. *)
(* Time runs in ticks, MinuteTicks to the minute.                            *)

RegisterLimit == 5
ReadLimit == 50
MinuteTicks == 2

RateRoutes ==
    {"register_user", "read_users", "read_user", "read_posts", "read_post", "read_tags", "read_tag"}
ByIdRoutes == {"read_user", "read_post", "read_tag"}
RouteLimit(route) == IF route = "register_user" THEN RegisterLimit ELSE ReadLimit

\* a limiter that lets one request too many through
Hit_off_by_one(h, t, limit) ==
    LET base == IF h.count = 0 \/ t >= h.expiry THEN 0 ELSE h.count
        ok == base + 1 <= limit + 1
    IN [ok |-> ok,
        hits |-> [count |-> IF base + 1 > limit + 2 THEN limit + 2 ELSE base + 1,
                  expiry |-> IF base = 0 THEN t + MinuteTicks ELSE h.expiry,
                  acc |-> (IF base = 0 THEN 0 ELSE h.acc) + (IF ok THEN 1 ELSE 0),
                  prev |-> h.prev,
                  cur |-> h.cur + (IF ok THEN 1 ELSE 0)]]

\* one request counted against the address's counter at time t: an expired
\* counter starts again at zero with a new expiry, the counter is
\* incremented, and the request passes when the counter does not exceed the
\* limit.  Counts above limit + 1 are all alike and are stored as limit + 1.
Hit(h, t, limit) ==
    LET base == IF h.count = 0 \/ t >= h.expiry THEN 0 ELSE h.count
        ok == base + 1 <= limit
    IN [ok |-> ok,
        hits |-> [count |-> IF base + 1 > limit + 1 THEN limit + 1 ELSE base + 1,
                  expiry |-> IF base = 0 THEN t + MinuteTicks ELSE h.expiry,
                  acc |-> (IF base = 0 THEN 0 ELSE h.acc) + (IF ok THEN 1 ELSE 0),
                  prev |-> h.prev,
                  cur |-> h.cur + (IF ok THEN 1 ELSE 0)]]

\* requests from the second address are capped
MaxOtherHits == 1
MaxRateTime == 2
MaySend(a) == a = "a1" \/ storage.hits[a].count < MaxOtherHits

\* RateLimitExceeded is answered 429 by _rate_limit_exceeded_handler before
\* the handler runs; otherwise the handler runs and answers
Limited(op, a, status, newusers, newtokens) ==
    LET h == Hit(storage.hits[a], storage.time, RouteLimit(op))
    IN /\ storage.route = op
       /\ MaySend(a)
       /\ storage' = [storage EXCEPT !.hits[a] = h.hits]
       /\ users' = IF h.ok THEN newusers ELSE users
       /\ tokens' = IF h.ok THEN newtokens ELSE tokens
       /\ last' = [Request(op, NoToken, storage.id, a) EXCEPT !.status = IF h.ok THEN status ELSE 429]
       /\ UNCHANGED <<posts, comments, tags, post_tags, now, budget, sessions>>

Tick ==
    /\ storage.time < MaxRateTime
    /\ storage' = [storage EXCEPT !.time = @ + 1,
                                  !.hits = [a \in Addresses |->
                                              [storage.hits[a] EXCEPT !.prev = storage.hits[a].cur, !.cur = 0]]]
    /\ UNCHANGED <<users, posts, comments, tags, post_tags, tokens, now, budget, last, sessions>>

LimitedRegisterUser ==
    \E a \in Addresses, username \in Usernames, email \in Emails :
        LET user == [username |-> username, email |-> email, password |-> "pw",
                     is_active |-> TRUE, is_admin |-> FALSE]
            r == auth_register_user(user)
        IN Limited("register_user", a, r.status, r.users, r.tokens)

LimitedReadUsers ==
    \E a \in Addresses :
        Limited("read_users", a, users_read_users(0, MaxLimit).status, users, tokens)

LimitedReadUser ==
    \E a \in Addresses :
        Limited("read_user", a, users_read_user(storage.id).status, users, tokens)

LimitedReadPosts ==
    \E a \in Addresses :
        Limited("read_posts", a, posts_read_posts(0, MaxLimit).status, users, tokens)

LimitedReadPost ==
    \E a \in Addresses :
        Limited("read_post", a, posts_read_post(storage.id).status, users, tokens)

LimitedReadTags ==
    \E a \in Addresses :
        Limited("read_tags", a, tags_read_tags(0, MaxLimit).status, users, tokens)

LimitedReadTag ==
    \E a \in Addresses :
        Limited("read_tag", a, tags_read_tag(storage.id).status, users, tokens)

----------------------------------------------------------------------------
(* Specifications *)

Init == InitDb /\ storage = NoStorage /\ budget = MaxSteps

Next ==
    \/ RegisterUser \/ CreateUser \/ LoginUser \/ ReadUsers \/ ReadUserMe \/ ReadUser
    \/ UpdateUser \/ DeleteUser \/ RestoreUser \/ ReadDeletedUsers
    \/ CreateTag \/ ReadTags \/ ReadTag \/ UpdateTag \/ DeleteTag \/ RestoreTag \/ ReadDeletedTags
    \/ CreatePost \/ ReadPosts \/ ReadPost \/ UpdatePost \/ DeletePost \/ RestorePost
    \/ ReadDeletedPosts \/ CreateCommentForPost \/ AddTagToPost \/ RemoveTagFromPost
    \/ ReadComment \/ UpdateComment \/ DeleteComment \/ RestoreComment \/ ReadDeletedComments
    \/ Deliver

Spec == Init /\ [][Next]_vars

\* the tag handlers alone, explored over longer runs
InitTags == InitDb /\ storage = NoStorage /\ budget = MaxTagSteps

NextTags ==
    \/ CreateTag \/ ReadTags \/ ReadTag \/ UpdateTag \/ DeleteTag \/ RestoreTag \/ ReadDeletedTags
    \/ Deliver

SpecTags == InitTags /\ [][NextTags]_vars

----------------------------------------------------------------------------
(* Properties *)

InSeq(x, seq) == \E i \in DOMAIN seq : seq[i] = x

\* the user a token authenticates as an active user, or 0
ActiveCaller(tok) ==
    IF tok = NoToken THEN 0
    ELSE LET found == {i \in DOMAIN users : users[i].username = tok.sub /\ ~users[i].is_deleted /\ users[i].is_active}
         IN IF found = {} THEN 0 ELSE CHOOSE i \in found : TRUE

C2_NonOwnerGets403 ==
    LET uid == ActiveCaller(last.tok)
        author_id == IF last.op \in {"update_post", "delete_post"}
                     THEN posts[last.id].author_id ELSE comments[last.id].author_id
    IN (/\ last.op \in {"update_post", "delete_post", "update_comment", "delete_comment"}
        /\ last.pre = "active"
        /\ uid # 0 /\ ~users[uid].is_admin /\ author_id # uid)
       => last.status = 403

\* C3: a user, tag or comment that was soft-deleted and is then restored with
\* success is active (is_deleted false, deleted_at cleared) and is returned
\* again by the default listing / lookup of its kind
C3_RestoreReactivates ==
    /\ (last.op = "restore_user" /\ last.status = 200 /\ last.pre = "deleted") =>
           /\ ~users[last.id].is_deleted /\ users[last.id].deleted_at = None
           /\ users_read_user(last.id).status = 200
           /\ InSeq(last.id, users_read_users(0, Len(users)).page.items)
    /\ (last.op = "restore_tag" /\ last.status = 200 /\ last.pre = "deleted") =>
           /\ ~tags[last.id].is_deleted /\ tags[last.id].deleted_at = None
           /\ tags_read_tag(last.id).status = 200
           /\ InSeq(last.id, tags_read_tags(0, Len(tags)).page.items)
    /\ (last.op = "restore_comment" /\ last.status = 200 /\ last.pre = "deleted") =>
           /\ ~comments[last.id].is_deleted /\ comments[last.id].deleted_at = None
           /\ comments_read_comment(last.id).status = 200

\* a soft-deleted tag has been restored
C3_Witness ==
    /\ last.op = "restore_tag" /\ last.status = 200 /\ last.pre = "deleted"
    /\ ~tags[last.id].is_deleted

\* with the token of an admin: every stored user, tag and post is in exactly
\* one of the default listing and the "deleted" listing of its kind (skip = 0,
\* a limit covering all rows), the default one exactly when it is not deleted
ListedOnce ==
    \A tok \in tokens : require_admin(tok).status = 200 =>
        /\ \A u \in DOMAIN users :
               LET d == InSeq(u, users_read_users(0, Len(users)).page.items)
                   x == InSeq(u, users_read_deleted_users(tok, 0, Len(users)).page.items)
               IN d # x /\ (d <=> ~users[u].is_deleted)
        /\ \A t \in DOMAIN tags :
               LET d == InSeq(t, tags_read_tags(0, Len(tags)).page.items)
                   x == InSeq(t, tags_read_deleted_tags(tok, 0, Len(tags)).page.items)
               IN d # x /\ (d <=> ~tags[t].is_deleted)
        /\ \A p \in DOMAIN posts :
               LET d == InSeq(p, posts_read_posts(0, Len(posts)).page.items)
                   x == InSeq(p, posts_read_deleted_posts(tok, 0, Len(posts)).page.items)
               IN d # x

\* C4: after any sequence of requests every entity ever created is still
\* stored (no request removes a row) and appears in exactly one of the two
\* listings of its kind: the default one if it is not soft-deleted, the
\* "deleted" one if it is
C4_StoredAndListedOnce ==
    [][/\ Len(users') >= Len(users) /\ Len(tags') >= Len(tags)
       /\ Len(posts') >= Len(posts) /\ Len(comments') >= Len(comments)
       /\ ListedOnce']_vars

\* C5: DELETE /posts/{id} by the post's author or an admin succeeds, after
\* which GET /posts/{id} answers 404 and the post is absent from GET /posts
\* and present in GET /posts/deleted/
C5_PostSoftDelete ==
    LET uid == ActiveCaller(last.tok)
    IN (/\ last.op = "delete_post" /\ last.pre = "active"
        /\ uid # 0 /\ (posts[last.id].author_id = uid \/ users[uid].is_admin))
       => /\ last.status = 200
          /\ posts_read_post(last.id).status = 404
          /\ ~InSeq(last.id, posts_read_posts(0, Len(posts)).page.items)
          /\ \A tok \in tokens : require_admin(tok).status = 200 =>
                 InSeq(last.id, posts_read_deleted_posts(tok, 0, Len(posts)).page.items)

C7_DuplicateRegistrationRejected ==
    [][(/\ last'.op \in {"register_user", "create_user"}
        /\ \E i \in DOMAIN users : users[i].username = last'.arg \/ users[i].email = last'.arg2)
       => (last'.status = 400 /\ users' = users)]_vars

\* a registration with a fresh username and the email of a soft-deleted user
\* has been answered with 400
C7_Witness ==
    /\ last.op = "register_user" /\ last.status = 400
    /\ \A i \in DOMAIN users : users[i].username # last.arg
    /\ \E i \in DOMAIN users : users[i].is_deleted /\ users[i].email = last.arg2

\* C8: creating a tag, or renaming a tag to a different name, is answered
\* with 400 and changes nothing whenever the requested name equals, ignoring
\* letter case, the name of an existing active tag (the request being an admin's)
C8_DuplicateTagNameRejected ==
    [][LET uid == ActiveCaller(last'.tok)
       IN (/\ uid # 0 /\ users[uid].is_admin
           /\ \/ last'.op = "create_tag"
              \/ last'.op = "update_tag" /\ last'.pre = "active" /\ tags[last'.id].name # last'.arg
           /\ \E i \in DOMAIN tags : ~tags[i].is_deleted /\ Lower(tags[i].name) = Lower(last'.arg))
          => (last'.status = 400 /\ tags' = tags)]_vars

RECURSIVE SumSizes(_, _)
SumSizes(pages, n) == IF n = 0 THEN 0 ELSE pages[n].size + SumSizes(pages, n - 1)

\* the pages of a listing sum to N and each reports total = N
PagesCover(pages, N) ==
    /\ SumSizes(pages, Len(pages)) = N
    /\ \A p \in DOMAIN pages : pages[p].total = N

\* C9: for the N active entities of a kind and any limit >= 1, the paginated
\* listing requested with skip = 0, limit, 2*limit, ... for each of its
\* total_pages pages returns sizes that sum to N, every response reporting
\* total = N
C9_PagesSumToTotal ==
    \A limit \in Limits :
        /\ PagesCover([p \in 1..users_read_users(0, limit).page.total_pages |->
                          users_read_users((p - 1) * limit, limit).page],
                      Cardinality({i \in DOMAIN users : ~users[i].is_deleted}))
        /\ PagesCover([p \in 1..tags_read_tags(0, limit).page.total_pages |->
                          tags_read_tags((p - 1) * limit, limit).page],
                      Cardinality({i \in DOMAIN tags : ~tags[i].is_deleted}))
        /\ PagesCover([p \in 1..posts_read_posts(0, limit).page.total_pages |->
                          posts_read_posts((p - 1) * limit, limit).page],
                      Len(posts))

\* floor(a / b) and ceil(a / b), by their defining inequalities
Floor(a, b) == CHOOSE k \in 0..a : k * b <= a /\ a < (k + 1) * b
Ceil(a, b) == CHOOSE m \in 0..a : (m - 1) * b < a /\ a <= m * b

\* C10: every paginated response (users, posts, tags, deleted posts, deleted
\* tags) reports page = floor(skip / limit) + 1, size = the number of items
\* returned (at most limit) and total_pages = ceil(total / limit)
C10_PageArithmetic ==
    (/\ last.op \in {"read_users", "read_posts", "read_tags", "read_deleted_posts", "read_deleted_tags"}
     /\ last.status = 200)
    => /\ last.page.page = Floor(last.skip, last.limit) + 1
       /\ last.page.size = Len(last.page.items)
       /\ last.page.size <= last.limit
       /\ last.page.total_pages = Ceil(last.page.total, last.limit)

\* the second and last page of three users, two to a page
C10_Witness ==
    /\ last.op = "read_users" /\ last.status = 200
    /\ last.skip = 2 /\ last.limit = 2
    /\ last.page.total = 3 /\ last.page.total_pages = 2
    /\ last.page.page = 2 /\ last.page.size = 1


\* C11: with N posts stored and none deleted, GET /api/posts with skip s and
\* limit l reports total = N, total_pages = ceil(N / l) and
\* size = min(l, max(0, N - s))
C11_PostsPage ==
    (last.op = "read_posts" /\ last.status = 200)
    => LET N == Len(posts)
           rest == IF N > last.skip THEN N - last.skip ELSE 0
       IN /\ last.page.total = N
          /\ last.page.total_pages = Ceil(N, last.limit)
          /\ last.page.size = (IF last.limit < rest THEN last.limit ELSE rest)


C13_MissingGets404 ==
    LET uid == ActiveCaller(last.tok)
    IN (/\ last.pre \in {"missing", "deleted"}
        /\ \/ last.op \in {"read_user", "read_post", "read_tag", "read_comment"}
           \/ /\ last.op \in {"update_user", "delete_user", "update_post", "delete_post",
                              "update_tag", "delete_tag", "update_comment", "delete_comment"}
              /\ uid # 0 /\ users[uid].is_admin)
       => last.status = 404


\* the user handlers, with Google sign-in and with database failures
NextFaults ==
    \/ GoogleCallback \/ ReadUsersDbFailure \/ CreateUserDbFailure
    \/ CreateUser \/ LoginUser \/ ReadUsers \/ ReadUserMe \/ DeleteUser \/ RestoreUser
    \/ Deliver

SpecFaults == Init /\ [][NextFaults]_vars

\* C14: when a database operation fails unexpectedly while a handler runs,
\* the response is a generic 500 and the request changes nothing: never a
\* success (such as a 200 page with no items and total 0), never a 400
C14_DbFailureIs500 ==
    [][last'.op \in {"read_users_db_failure", "create_user_db_failure", "google_callback_db_failure"}
       => (last'.status = 500 /\ db' = db)]_vars


\* the account handlers alone, explored over longer runs
InitAuth == InitDb /\ storage = NoStorage /\ budget = MaxAuthSteps

NextAuth ==
    \/ RegisterUser \/ LoginUser \/ ReadUserMe \/ UpdateUser \/ DeleteUser \/ RestoreUser
    \/ Deliver

SpecAuth == InitAuth /\ [][NextAuth]_vars

\* C15: while a user is soft-deleted, a login with that user's correct
\* credentials is answered 401 and every request carrying a token issued to
\* that user is answered 401; once the user is restored (not deleted, the
\* token still naming it) the token is accepted again
C15_DeletedUserLockedOut ==
    [][/\ (/\ last'.tok # NoToken
           /\ last'.tok.uid \in DOMAIN users
           /\ users[last'.tok.uid].is_deleted)
          => last'.status = 401
       /\ (/\ last'.op = "login_user"
           /\ \E i \in DOMAIN users :
                  /\ users[i].username = last'.arg /\ users[i].is_deleted
                  /\ users[i].hashed_password = <<"bcrypt", last'.arg2>>)
          => last'.status = 401
       /\ (/\ last'.tok # NoToken
           /\ last'.tok.uid \in DOMAIN users
           /\ ~users[last'.tok.uid].is_deleted
           /\ users[last'.tok.uid].username = last'.tok.sub)
          => last'.status # 401]_vars


\* C16: a request from an authenticated non-admin user to create, rename,
\* soft-delete or restore a tag, to restore a user, post or comment, or to
\* obtain a "deleted" listing is refused with status 403 and changes nothing
C16_NonAdminRefused ==
    [][LET uid == ActiveCaller(last'.tok)
       IN (/\ last'.op \in {"create_tag", "update_tag", "delete_tag", "restore_tag",
                            "restore_user", "restore_post", "restore_comment",
                            "read_deleted_users", "read_deleted_posts",
                            "read_deleted_tags", "read_deleted_comments"}
           /\ uid # 0
           /\ ~users[uid].is_admin)
          => (last'.status = 403 /\ db' = db)]_vars


\* concurrent tag creation
MaxTagRaceSteps == 2
InitTagRace == InitDb /\ storage = NoStorage /\ budget = MaxTagRaceSteps
NextTagRace == CreateTagRouteCheck \/ CreateTagCrudCheck \/ CreateTagInsert \/ SessionClose
SpecTagRace == InitTagRace /\ [][NextTagRace]_vars

BothPassed ==
    /\ \A s \in Sessions : sessions[s].op = "create_tag" /\ sessions[s].pc = "done" /\ sessions[s].passed
    /\ sessions[1].name = sessions[2].name

MaxSoftRaceSteps == 3
InitSoftRace == InitDb /\ storage = NoStorage /\ budget = MaxSoftRaceSteps
NextSoftRace == UserSoftRead \/ UserSoftCommit \/ CommentSoftRead \/ CommentSoftCommit \/ SessionClose
SpecSoftRace == InitSoftRace /\ [][NextSoftRace]_vars

Committing(s) == sessions[s].pc = "loaded" /\ sessions'[s].pc = "done"
RowsOf(op) == IF op \in UserOps THEN users ELSE comments

\* C18: a soft delete and a restore of one entity that run concurrently in
\* separate sessions both complete: the commit of either is answered with
\* success whatever the other did since the row was read, the entity's
\* is_deleted is then the value that commit wrote, and is_deleted changes
\* only by such a commit, so it ends as written by whichever commits last
C18_LastWriteWins ==
    [][/\ \A s \in Sessions :
              Committing(s) =>
                  /\ sessions'[s].status \in {200, 204}
                  /\ (RowsOf(sessions[s].op))'[sessions[s].id].is_deleted = (sessions[s].op \in DeleteOps)
       /\ \A i \in DOMAIN users :
              users'[i].is_deleted # users[i].is_deleted
                  => \E s \in Sessions : Committing(s) /\ sessions[s].op \in UserOps /\ sessions[s].id = i
       /\ \A i \in DOMAIN comments :
              comments'[i].is_deleted # comments[i].is_deleted
                  => \E s \in Sessions : Committing(s) /\ sessions[s].op \in CommentOps /\ sessions[s].id = i]_vars

\* a delete that committed last, after a restore committed in between
C18_Witness ==
    \E s, t \in Sessions :
        /\ sessions[s].op = "delete_user" /\ sessions[s].pc = "done" /\ sessions[s].overlap
        /\ sessions[t].op = "restore_user" /\ sessions[t].pc = "done" /\ sessions[t].status = 200
        /\ sessions[t].id = sessions[s].id
        /\ sessions[s].status = 200
        /\ users[sessions[s].id].is_deleted


\* rate-limited requests: a run sends its requests to one route and path
InitRate ==
    /\ InitDb
    /\ budget = 0
    /\ \E route \in RateRoutes :
           storage = [NoStorage EXCEPT !.route = route, !.id = IF route \in ByIdRoutes THEN 1 ELSE 0]
NextRate ==
    \/ Tick
    \/ LimitedRegisterUser
    \/ LimitedReadUsers \/ LimitedReadUser
    \/ LimitedReadPosts \/ LimitedReadPost
    \/ LimitedReadTags \/ LimitedReadTag
SpecRate == InitRate /\ [][NextRate]_vars

C20_OnlyAdminGrantsAdmin ==
    [][LET uid == ActiveCaller(last'.tok)
       IN \A i \in DOMAIN users' :
              (/\ users'[i].is_admin
               /\ (i \notin DOMAIN users \/ ~users[i].is_admin))
                  => (uid # 0 /\ users[uid].is_admin)]_vars


\* C21: a token issued to user u never authenticates a request as another
\* user: get_current_user on it resolves to u or answers 401
C21_TokenKeepsIdentity ==
    \A tok \in tokens :
        LET cur == get_current_user(tok)
        IN cur.status = 401 \/ (cur.status = 200 /\ cur.uid = tok.uid)


\* C22: no two active tags have names that are equal ignoring letter case
C22_ActiveTagNamesDistinct ==
    \A i, j \in DOMAIN tags :
        (/\ ~tags[i].is_deleted /\ ~tags[j].is_deleted
         /\ Lower(tags[i].name) = Lower(tags[j].name)) => i = j


FlagMatchesTimestamp(rows) ==
    \A i \in DOMAIN rows : rows[i].is_deleted <=> (rows[i].deleted_at # None)

\* the rows of a table keep their soft-delete state, and rows added to it
\* are active
SoftStateKept(old, new) ==
    /\ \A i \in DOMAIN old :
           new[i].is_deleted = old[i].is_deleted /\ new[i].deleted_at = old[i].deleted_at
    /\ \A i \in DOMAIN new \ DOMAIN old : ~new[i].is_deleted /\ new[i].deleted_at = None

\* C23: for every user, tag and comment, is_deleted is true exactly when
\* deleted_at is set, initially and after every step that changes the
\* table; a new row has neither, and only the soft-delete and restore
\* requests of a table write either field
C23_FlagIffTimestamp ==
    /\ FlagMatchesTimestamp(users) /\ FlagMatchesTimestamp(tags) /\ FlagMatchesTimestamp(comments)
    /\ [][/\ \/ users' = users
             \/ /\ FlagMatchesTimestamp(users')
                /\ last'.op \notin {"delete_user", "restore_user"} => SoftStateKept(users, users')
          /\ \/ tags' = tags
             \/ /\ FlagMatchesTimestamp(tags')
                /\ last'.op \notin {"delete_tag", "restore_tag"} => SoftStateKept(tags, tags')
          /\ \/ comments' = comments
             \/ /\ FlagMatchesTimestamp(comments')
                /\ last'.op \notin {"delete_comment", "restore_comment"} =>
                       SoftStateKept(comments, comments')]_vars

\* a field update answered 200 while a soft-deleted row is stored
C23_Witness ==
    /\ last.op = "update_user" /\ last.status = 200
    /\ \E i \in DOMAIN users : users[i].is_deleted /\ users[i].deleted_at # None


\* C24: a post is stored only for an author_id that is the authenticated
\* caller's own id, or any id when the caller is an admin, and that names a
\* stored user; a caller naming another author is answered 403, a permitted
\* caller naming no stored user 404, and in both cases no post is stored
C24_PostAuthorChecked ==
    [][LET uid == ActiveCaller(last'.tok)
           permitted == uid # 0 /\ (last'.id = uid \/ users[uid].is_admin)
       IN /\ posts' # posts =>
                 /\ last'.op = "create_post" /\ last'.status = 201
                 /\ permitted /\ last'.id \in DOMAIN users
                 /\ posts' = Append(posts, posts'[Len(posts')])
                 /\ posts'[Len(posts')].author_id = last'.id
          /\ (last'.op = "create_post" /\ uid # 0) =>
                 /\ ~permitted => (last'.status = 403 /\ posts' = posts)
                 /\ (permitted /\ last'.id \notin DOMAIN users) => (last'.status = 404 /\ posts' = posts)
                 /\ (permitted /\ last'.id \in DOMAIN users) => last'.status = 201]_vars

\* after a post was stored, an admin names an author that is not stored
C24_Witness ==
    /\ last.op = "create_post"
    /\ last.status = 404
    /\ last.id \notin DOMAIN users
    /\ Len(posts) > Len(SeedPosts)


\* C25: a comment created through POST /api/posts/{post_id}/comments is
\* stored with the authenticated caller as its author when the post exists
\* (201); when the post does not exist the response is 404 and no comment is
\* stored
C25_CommentByCaller ==
    [][LET uid == ActiveCaller(last'.tok)
       IN (last'.op = "create_comment_for_post" /\ uid # 0) =>
              IF last'.id \in DOMAIN posts
              THEN /\ last'.status = 201
                   /\ Len(comments') = Len(comments) + 1
                   /\ comments'[Len(comments')].author_id = uid
                   /\ comments'[Len(comments')].post_id = last'.id
              ELSE last'.status = 404 /\ comments' = comments]_vars


\* C26: no two stored users, active or soft-deleted, share a username, and
\* no two share an email; hence no two active users do after a restore
C26_UsersDistinct ==
    \A i, j \in DOMAIN users :
        (users[i].username = users[j].username \/ users[i].email = users[j].email) => i = j

\* a soft-deleted user is restored after another account was registered
C26_Witness ==
    /\ last.op = "restore_user" /\ last.status = 200 /\ last.pre = "deleted"
    /\ Len(users) > Len(SeedUsers)
    /\ ~users[last.id].is_deleted


\* C27: an access token issued for user u, by POST /api/auth/login or by the
\* Google callback, is resolved by get_current_user to u when it is
\* presented with u's record as it was at issue
C27_IssuedTokenResolves ==
    [][\A tok \in tokens' \ tokens :
           (get_current_user(tok))' = [status |-> 200, uid |-> tok.uid]]_vars

----------------------------------------------------------------------------
(* Listings that overlap other requests: between the two statements of a   *)
(* listing, other requests create, soft-delete and restore users and tags. *)

MaxPageRaceSteps == 1

InitPageRace == InitDb /\ storage = NoStorage /\ budget = MaxPageRaceSteps
NextPageRace ==
    \/ PageItemsRead \/ PageCountRead \/ SessionClose
    \/ RegisterUser \/ DeleteUser \/ RestoreUser
    \/ CreateTag \/ DeleteTag \/ RestoreTag
    \/ Deliver
SpecPageRace == InitPageRace /\ [][NextPageRace]_vars

\* C28: every paginated response has size <= total, whatever other requests
\* created, soft-deleted or restored between the handler's item query and
\* its count query
C28_SizeWithinTotal ==
    \A s \in Sessions :
        (sessions[s].pc = "done" /\ sessions[s].op \in PageOps) =>
            sessions[s].page.size <= sessions[s].page.total

\* a row of the table that is soft-deleted (deleted = TRUE) or active
RowIs(rows, id, deleted) == id \in DOMAIN rows /\ rows[id].is_deleted = deleted

\* C29: a soft delete of an entity that is already soft-deleted and a
\* restore of an entity that is active change no stored state, for users,
\* tags, comments and posts (a post row has no soft-delete state, so no
\* delete or restore of a post changes anything); so a repeated delete
\* leaves deleted_at as the first delete set it
C29_RepeatKeepsState ==
    [][/\ (last'.op = "delete_user" /\ RowIs(users, last'.id, TRUE)) => db' = db
       /\ (last'.op = "restore_user" /\ RowIs(users, last'.id, FALSE)) => db' = db
       /\ (last'.op = "delete_tag" /\ RowIs(tags, last'.id, TRUE)) => db' = db
       /\ (last'.op = "restore_tag" /\ RowIs(tags, last'.id, FALSE)) => db' = db
       /\ (last'.op = "delete_comment" /\ RowIs(comments, last'.id, TRUE)) => db' = db
       /\ (last'.op = "restore_comment" /\ RowIs(comments, last'.id, FALSE)) => db' = db
       /\ last'.op \in {"delete_post", "restore_post"} => db' = db]_vars

\* a user is deleted a second time, by a caller the handler lets through,
\* and still has the timestamp of the first delete
C29_Witness ==
    /\ last.op = "delete_user"
    /\ last.status = 200
    /\ last.pre = "deleted"
    /\ users[last.id].is_deleted
    /\ users[last.id].deleted_at # None
    /\ users[last.id].deleted_at[1] < now

\* the request answered by this step is made by an active caller who is the
\* author of the stored post it names or an administrator
MayTagPost ==
    /\ get_current_active_user(last'.tok).status = 200
    /\ last'.id \in DOMAIN posts
    /\ IsAuthorOrAdmin(posts[last'.id].author_id, get_current_active_user(last'.tok).uid)

\* C30: the tags of a post are a set: for a permitted caller and a stored
\* post, adding an active tag succeeds and leaves the associations with that
\* pair in them (unchanged if it was there), removing a stored tag, deleted
\* or not, succeeds and leaves them without it (unchanged if it was not
\* there), and adding a soft-deleted tag is refused and changes nothing
C30_PostTagsAreASet ==
    [][/\ (last'.op = "add_tag_to_post" /\ MayTagPost /\ RowIs(tags, last'.id2, FALSE)) =>
              (last'.status = 200 /\ post_tags' = post_tags \cup {<<last'.id, last'.id2>>})
       /\ (last'.op = "remove_tag_from_post" /\ MayTagPost /\ last'.id2 \in DOMAIN tags) =>
              (last'.status = 200 /\ post_tags' = post_tags \ {<<last'.id, last'.id2>>})
       /\ (last'.op = "add_tag_to_post" /\ MayTagPost /\ RowIs(tags, last'.id2, TRUE)) =>
              (last'.status # 200 /\ post_tags' = post_tags)]_vars

====
